---- MODULE Spec2Model ----
(***************************************************************************)
(* Model of src/main.py: a FastAPI service that fills the column           *)
(* competitor_positioning of the table "competitors" with a paragraph      *)
(* produced by a chat-completion call.                                     *)
(*                                                                         *)
(* The table lives in a remote store, so a request is modelled as the      *)
(* sequence of its remote calls (select, completion, update); the local    *)
(* code between two remote calls is part of the step of the call it        *)
(* follows.  The handlers are "async def" and never await, so one worker   *)
(* process serves its requests one after the other; requests interleave    *)
(* when several workers serve the same table, and that is what the two     *)
(* request slots model.  A row may be deleted by a party other than the    *)
(* service.                                                                *)
(*                                                                         *)
(* A text is a sequence of one-character strings.  An Optional[str] is     *)
(* NULL (the empty tuple) or Some(t), the one-element tuple holding t.     *)
(***************************************************************************)
EXTENDS Integers, Sequences, FiniteSets, TLC

\* Number of ids the table may hold (ids are 1..MaxId).
MaxId == 2
\* Number of remote calls (select, completion, update) made in one behaviour.
MaxCalls == 6
\* Number of faults in one behaviour: remote calls that raise, plus rows
\* deleted by a party other than the service.
MaxFaults == 1

Ids == 1..MaxId
\* Two request slots: a request and one other request that may run while it
\* runs.  Each slot serves one request in a behaviour.
Procs == {1, 2}

VARIABLES
  store,      \* the table "competitors": id -> row, for the ids present
  req,        \* per request: the handler's locals, position and response
  store0,     \* history: the table as it was at start
  deleted     \* history: ids deleted by a party other than the service

vars == <<store, req, store0, deleted>>

----------------------------------------------------------------------------
\* Values

NULL == <<>>
Some(t) == <<t>>

Whitespace == {" ", "\t", "\n"}

\* What the completion API may put in choices[0].message.content.
Texts == { <<" ", "x", " ", "y", "\n">>, <<"\t", " ">> }

\* A positioning written before the service started.
InitText == <<"o", "l", "d">>

CompetitorNames == <<"Acme", "Bolt", "Core">>
NameOf(id) == CompetitorNames[((id - 1) % Len(CompetitorNames)) + 1]

\* The leading whitespace of s dropped.
RECURSIVE LStrip(_)
LStrip(s) ==
  IF s # <<>> /\ Head(s) \in Whitespace THEN LStrip(Tail(s)) ELSE s

\* The trailing whitespace of s dropped.
RECURSIVE RStrip(_)
RStrip(s) ==
  IF s # <<>> /\ s[Len(s)] \in Whitespace
    THEN RStrip(SubSeq(s, 1, Len(s) - 1))
    ELSE s

\* str.lstrip() in the place of str.strip().
StripLeft(s) == LStrip(s)

\* str.strip() with no argument: drop leading and trailing whitespace.
Strip(s) == RStrip(LStrip(s))

\* class CompetitorResponse(BaseModel)
CompetitorResponse(row) ==
  [id |-> row.id,
   competitor_name |-> row.competitor_name,
   competitor_positioning |-> row.competitor_positioning]

\* Exceptions
APIError(op) == [type |-> "APIError", msg |-> op]
OpenAIError == [type |-> "OpenAIError", msg |-> "completion failed"]
IndexError == [type |-> "IndexError", msg |-> "list index out of range"]
HTTPException(status_code, detail) ==
  [type |-> "HTTPException", status_code |-> status_code, detail |-> detail]

\* str(e).  An HTTPException prints as "<status>: <detail>" where the
\* framework defines __str__ and as "" where it does not; the source pins
\* no version, so both are possible.
Str(e) ==
  IF e.type = "HTTPException"
    THEN {"404: Competitor not found", ""}
    ELSE {e.msg}

\* All orders in which the store may return the rows with ids in S.
Orders(S) ==
  {f \in [1..Cardinality(S) -> S] : \A i, j \in DOMAIN f : i # j => f[i] # f[j]}

----------------------------------------------------------------------------
\* Requests

NoResp == [status |-> 0]
NoExc == [type |-> "none"]

Idle ==
  [kind |-> "none", pc |-> "idle", competitor_id |-> 0, data |-> <<>>,
   i |-> 0, competitor_name |-> "", positioning |-> NULL,
   updated_competitors |-> <<>>, e |-> NoExc, resp |-> NoResp,
   log |-> <<>>, concurrent |-> FALSE]

Active(q) == req[q].pc \in {"completion", "update"}

\* The request of slot p becomes r; r and every request in flight are
\* marked as having run concurrently with another one.
Begin(p, r) ==
  [q \in Procs |->
     IF q = p
       THEN [r EXCEPT !.concurrent = \E o \in Procs \ {p} : Active(o)]
       ELSE IF Active(q) /\ r.pc # "done"
              THEN [req[q] EXCEPT !.concurrent = TRUE]
              ELSE req[q]]

\* One remote call of a request, as kept in its log: the call, the id it is
\* about (0: none), whether it returned, the number of rows it returned,
\* for a completion the name it was asked about and the content it
\* returned, for an update the value sent and the value the row held before.
Entry(call, id, ok) ==
  [call |-> call, id |-> id, ok |-> ok, rows |-> 0, competitor_name |-> "",
   content |-> <<>>, value |-> NULL, prev |-> NULL]

RECURSIVE SumLen(_)
SumLen(S) ==
  IF S = {} THEN 0
  ELSE LET q == CHOOSE x \in S : TRUE IN Len(req[q].log) + SumLen(S \ {q})

RECURSIVE SumFailed(_)
SumFailed(S) ==
  IF S = {} THEN 0
  ELSE LET q == CHOOSE x \in S : TRUE IN
       Cardinality({k \in DOMAIN req[q].log : ~req[q].log[k].ok}) + SumFailed(S \ {q})

\* Budgets of the exploration.
CanCall == SumLen(Procs) < MaxCalls
CanFail == SumFailed(Procs) + Cardinality(deleted) < MaxFaults

\* Requests are taken by the slots in order.
NextSlot(p) == req[p].pc = "idle" /\ \A q \in Procs : q < p => req[q].pc # "idle"

----------------------------------------------------------------------------
\* The service treats all ids alike, so up to a renaming of the ids the
\* table starts with its absent ids first, then the rows not analysed yet,
\* then the rows already analysed.
InitRank(t, id) ==
  IF id \notin DOMAIN t THEN 0
  ELSE IF t[id].competitor_positioning = NULL THEN 1 ELSE 2

Init ==
  /\ store \in UNION {[S -> [id : Ids, competitor_name : {"Acme", "Bolt", "Core"},
                             competitor_positioning : {NULL, Some(InitText)}]]
                      : S \in SUBSET Ids}
  /\ \A id \in DOMAIN store :
       store[id].id = id /\ store[id].competitor_name = NameOf(id)
  /\ \A a, b \in Ids : a < b => InitRank(store, a) <= InitRank(store, b)
  /\ store0 = store
  /\ req = [p \in Procs |-> Idle]
  /\ deleted = {}

\* @app.get("/")
root(p) ==
  /\ NextSlot(p)
  /\ req' = [req EXCEPT ![p] =
       [Idle EXCEPT !.kind = "root", !.pc = "done",
                    !.resp = [status |-> 200, body |-> [status |-> "API is running"]]]]
  /\ UNCHANGED <<store, store0, deleted>>

\* The except of /update-single answering with a fixed detail in the place of
\* str(e).
single_except_generic(r, exc) ==
  {[r EXCEPT !.pc = "done", !.e = exc,
             !.resp = [status |-> 500, detail |-> "Internal Server Error"]]}

\* The handler of /update-single leaves through "except Exception as e":
\* every exception raised in the try, an HTTPException included, becomes
\* HTTPException(500, detail=str(e)).
single_except(r, exc) ==
  {[r EXCEPT !.pc = "done", !.e = exc,
             !.resp = [status |-> 500, detail |-> d]] : d \in Str(exc)}

\* The handler of /update-all leaves through its outer "except Exception".
all_except(r, exc) ==
  {[r EXCEPT !.pc = "done", !.e = exc,
             !.resp = [status |-> 500, detail |-> d]] : d \in Str(exc)}

\* The return after the for loop of /update-all.
all_return(r) ==
  [r EXCEPT !.pc = "done",
            !.resp = [status |-> 200,
                      body |-> [status |-> "success",
                                total_processed |-> Len(r.updated_competitors),
                                updated_competitors |-> r.updated_competitors]]]

\* "for competitor in response.data": move to the row after row r.i, or
\* leave the loop and return.
for_next(r) ==
  LET j == r.i + 1 IN
  IF j > Len(r.data)
    THEN all_return([r EXCEPT !.i = j])
    ELSE [r EXCEPT !.i = j, !.pc = "completion",
                   !.competitor_id = r.data[j].id,
                   !.competitor_name = r.data[j].competitor_name,
                   !.positioning = NULL]

\* The loop without its try: a row's exception reaches the outer except.
propagate_no_row_try(r, exc) ==
  IF r.kind = "single" THEN single_except(r, exc) ELSE all_except(r, exc)

\* The loop trying the same row again after an exception.
propagate_retry(r, exc) ==
  IF r.kind = "single"
    THEN single_except(r, exc)
    ELSE {[r EXCEPT !.e = exc, !.pc = "completion", !.positioning = NULL]}

\* An exception leaving update_competitor_positioning: /update-single turns
\* it into a 500, the loop of /update-all logs it and goes on.
propagate(r, exc) ==
  IF r.kind = "single"
    THEN single_except(r, exc)
    ELSE {for_next([r EXCEPT !.e = exc])}

\* update_competitor_positioning returned `updated` to its caller.
returned(r, updated) ==
  IF r.kind = "single"
    THEN [r EXCEPT !.pc = "done", !.resp = [status |-> 200, body |-> updated]]
    ELSE for_next([r EXCEPT !.updated_competitors = Append(@, updated)])

\* /update-single without "if not response.data": it goes on to the
\* analysis with no row.
single_not_found_goes_on(r) ==
  {[r EXCEPT !.pc = "completion"]}

\* "if not response.data: raise HTTPException(status_code=404, ...)", raised
\* inside the try of /update-single.
single_not_found(r) ==
  single_except(r, HTTPException(404, "Competitor not found"))

\* @app.post("/update-single/{competitor_id}"), up to the call of
\* update_competitor_positioning: the select by id and the 404 branch.
update_single_competitor(p, id) ==
  /\ NextSlot(p)
  /\ CanCall
  /\ LET r0 == [Idle EXCEPT !.kind = "single", !.competitor_id = id] IN
     \/ /\ CanFail
        /\ \E r \in single_except(
               [r0 EXCEPT !.log = <<Entry("select", id, FALSE)>>],
               APIError("select failed")) :
             req' = Begin(p, r)
     \/ /\ id \notin DOMAIN store
        /\ \E r \in single_not_found(
               [r0 EXCEPT !.log = <<Entry("select", id, TRUE)>>]) :
             req' = Begin(p, r)
     \/ /\ id \in DOMAIN store
        /\ req' = Begin(p,
             [r0 EXCEPT !.pc = "completion",
                        !.data = <<store[id]>>,
                        !.competitor_name = store[id].competitor_name,
                        !.log = <<[Entry("select", id, TRUE) EXCEPT !.rows = 1]>>])
  /\ UNCHANGED <<store, store0, deleted>>

\* The select of /update-all without its filter.
select_all_rows == DOMAIN store

\* .select('id, competitor_name').is_('competitor_positioning', 'null'):
\* the ids of the rows the select returns.
select_null_rows == {id \in DOMAIN store : store[id].competitor_positioning = NULL}

\* /update-all without "if not response.data": the loop runs over nothing.
all_no_rows_unchecked(r) == all_return(r)

\* "if not response.data: return {"status": "No competitors found needing
\* updates"}".
all_no_rows(r) ==
  [r EXCEPT !.pc = "done",
            !.resp = [status |-> 200,
                      body |-> [status |-> "No competitors found needing updates"]]]

\* @app.post("/update-all"), up to the first call of
\* update_competitor_positioning: the select of the rows whose
\* competitor_positioning is null, and the empty branch.
update_all_competitors(p) ==
  /\ NextSlot(p)
  /\ CanCall
  /\ LET r0 == [Idle EXCEPT !.kind = "all"]
         rows == select_null_rows
     IN
     \/ /\ CanFail
        /\ \E r \in all_except(
               [r0 EXCEPT !.log = <<Entry("select", 0, FALSE)>>],
               APIError("select failed")) :
             req' = Begin(p, r)
     \/ /\ rows = {}
        /\ req' = Begin(p,
             all_no_rows([r0 EXCEPT !.log = <<Entry("select", 0, TRUE)>>]))
     \/ /\ rows # {}
        /\ \E f \in Orders(rows) :
             req' = Begin(p,
               for_next([r0 EXCEPT
                 !.data = [k \in DOMAIN f |->
                             [id |-> f[k],
                              competitor_name |-> store[f[k]].competitor_name]],
                 !.log = <<[Entry("select", 0, TRUE) EXCEPT
                             !.rows = Cardinality(rows)]>>]))
  /\ UNCHANGED <<store, store0, deleted>>

\* get_market_positioning swallowing the exception and returning "".
completion_raised_fallback(r) ==
  {[r EXCEPT !.pc = "update", !.positioning = Some(<<>>)]}

\* The completion call raised: get_market_positioning and
\* update_competitor_positioning catch nothing.
completion_raised(r) == propagate(r, OpenAIError)

\* get_market_positioning(competitor_name): the completion call and the
\* strip() of its content.
get_market_positioning(p) ==
  LET r == req[p] IN
  /\ r.pc = "completion"
  /\ CanCall
  /\ \/ \E t \in Texts :
          req' = [req EXCEPT ![p] =
            [r EXCEPT !.pc = "update",
                      !.positioning = Some(Strip(t)),
                      !.log = Append(@,
                         [Entry("completion", r.competitor_id, TRUE) EXCEPT
                            !.competitor_name = r.competitor_name,
                            !.content = t])]]
     \/ /\ CanFail
        /\ \E n \in completion_raised(
               [r EXCEPT !.log = Append(@,
                  [Entry("completion", r.competitor_id, FALSE) EXCEPT
                     !.competitor_name = r.competitor_name])]) :
             req' = [req EXCEPT ![p] = n]
  /\ UNCHANGED <<store, store0, deleted>>

\* An update without .eq('id', competitor_id): every row is written.
store_update_unfiltered(id, value) ==
  [k \in DOMAIN store |-> [store[k] EXCEPT !.competitor_positioning = value]]

\* .update({'competitor_positioning': positioning}).eq('id', competitor_id):
\* the table after the update.
store_update(id, value) ==
  [store EXCEPT ![id].competitor_positioning = value]

\* update_competitor_positioning(competitor_id, competitor_name) after the
\* analysis: the update by id, response.data[0] and the return.
update_competitor_positioning(p) ==
  LET r == req[p]
      id == r.competitor_id
      sent == [Entry("update", id, TRUE) EXCEPT !.value = r.positioning]
  IN
  /\ r.pc = "update"
  /\ CanCall
  /\ \/ /\ CanFail
        /\ \E n \in propagate(
               [r EXCEPT !.log = Append(@, [sent EXCEPT !.ok = FALSE])],
               APIError("update failed")) :
             req' = [req EXCEPT ![p] = n]
        /\ UNCHANGED store
     \/ /\ id \in DOMAIN store
        /\ store' = store_update(id, r.positioning)
        /\ req' = [req EXCEPT ![p] =
             returned(
               [r EXCEPT !.log = Append(@,
                  [sent EXCEPT !.rows = 1,
                               !.prev = store[id].competitor_positioning])],
               CompetitorResponse(store'[id]))]
     \/ /\ id \notin DOMAIN store
        /\ \E n \in propagate([r EXCEPT !.log = Append(@, sent)], IndexError) :
             req' = [req EXCEPT ![p] = n]
        /\ UNCHANGED store
  /\ UNCHANGED <<store0, deleted>>

\* A row is deleted by a party other than the service.
ExternalDelete(id) ==
  /\ CanFail
  /\ id \in DOMAIN store
  /\ store' = [k \in DOMAIN store \ {id} |-> store[k]]
  /\ deleted' = deleted \cup {id}
  /\ UNCHANGED <<req, store0>>

Next ==
  \/ \E p \in Procs : root(p)
  \/ \E p \in Procs, id \in Ids : update_single_competitor(p, id)
  \/ \E p \in Procs : update_all_competitors(p)
  \/ \E p \in Procs : get_market_positioning(p)
  \/ \E p \in Procs : update_competitor_positioning(p)
  \/ \E id \in Ids : ExternalDelete(id)

Spec == Init /\ [][Next]_vars

----------------------------------------------------------------------------
\* Vocabulary of the properties

Done(r) == r.pc = "done"
Single(r) == r.kind = "single"
All(r) == r.kind = "all"

\* s is t without its leading and trailing whitespace.
IsTrimOf(s, t) ==
  \E i, j \in 0..Len(t) :
    /\ i + j <= Len(t)
    /\ s = SubSeq(t, i + 1, Len(t) - j)
    /\ \A k \in 1..i : t[k] \in Whitespace
    /\ \A k \in (Len(t) - j + 1)..Len(t) : t[k] \in Whitespace
    /\ s # <<>> => s[1] \notin Whitespace /\ s[Len(s)] \notin Whitespace

\* The calls of one kind in a log, and the ids they were about.
CallsOf(r, call) == SelectSeq(r.log, LAMBDA en : en.call = call)
IdsOf(seq) == [k \in DOMAIN seq |-> seq[k].id]

\* The select of the request returned without raising, with n rows.
Selected(r, n) == Len(r.log) >= 1 /\ r.log[1].ok /\ r.log[1].rows = n
SelectRaised(r) == Len(r.log) >= 1 /\ ~r.log[1].ok

\* The ids whose update returned a row in this request.
Updated(r) ==
  {r.log[k].id : k \in {x \in DOMAIN r.log :
      r.log[x].call = "update" /\ r.log[x].ok /\ r.log[x].rows = 1}}

----------------------------------------------------------------------------
\* C1: whenever the select by id of POST /update-single/{id} returns no row,
\* the response has status 404 and detail "Competitor not found".
C1_NotFoundIs404 ==
  \A p \in Procs :
    (Single(req[p]) /\ Done(req[p]) /\ Selected(req[p], 0)) =>
      /\ req[p].resp.status = 404
      /\ req[p].resp.detail = "Competitor not found"

\* What the code does for C1: the 404 raised inside the try is caught by the
\* handler's own "except Exception" and leaves as a 500.
C1_NotFoundIs500 ==
  \A p \in Procs :
    (Single(req[p]) /\ Done(req[p]) /\ Selected(req[p], 0)) =>
      /\ req[p].resp.status = 500
      /\ req[p].resp.detail \in {"404: Competitor not found", ""}

C1_Witness ==
  \E p \in Procs : Single(req[p]) /\ Done(req[p]) /\ Selected(req[p], 0)

\* C2: a POST /update-single/{id} whose select by id returns no row makes no
\* completion call and no update call (the select is its only remote call),
\* and the step that serves it leaves every row of the table as it was.
C2_Calls ==
  \A p \in Procs :
    (Single(req[p]) /\ Selected(req[p], 0)) =>
      /\ Done(req[p])
      /\ Len(req[p].log) = 1
      /\ req[p].log[1].call = "select"

C2_Step ==
  \A p \in Procs :
    (req[p].pc = "idle" /\ Single(req'[p]) /\ Selected(req'[p], 0)) =>
      store' = store

\* C2: in every state a not-found /update-single has made the select and no
\* other call, and every step that serves one leaves the table unchanged.
C2_NotFoundNoCalls == []C2_Calls /\ [][C2_Step]_vars

C2_Witness ==
  \E p \in Procs :
    /\ Single(req[p]) /\ Done(req[p]) /\ Selected(req[p], 0)
    /\ req[p].competitor_id \notin DOMAIN store
    /\ DOMAIN store # {}

\* C3: when POST /update-single/{id} finds the row and its completion call
\* and its update both succeed, the step of the update ends the request with
\* a 200 whose record has the requested id, the row's name and, as
\* competitor_positioning, the completion's content without leading and
\* trailing whitespace; and the row then stored under id holds that value.
C3_Step ==
  \A p \in Procs :
    (Single(req[p]) /\ req[p].pc = "update" /\ Done(req'[p])
       /\ req'[p].log[Len(req'[p].log)].ok
       /\ req'[p].log[Len(req'[p].log)].rows = 1) =>
      LET r == req'[p]
          id == r.competitor_id
          t == r.log[2].content
      IN
      /\ Len(r.log) = 3
      /\ r.log[2].call = "completion" /\ r.log[2].ok
      /\ r.resp.status = 200
      /\ r.resp.body.id = id
      /\ r.resp.body.competitor_name = r.data[1].competitor_name
      /\ Len(r.resp.body.competitor_positioning) = 1
      /\ IsTrimOf(r.resp.body.competitor_positioning[1], t)
      /\ id \in DOMAIN store'
      /\ store'[id].competitor_positioning = r.resp.body.competitor_positioning
      /\ \A o \in DOMAIN store' \ {id} : store'[o] = store[o]

\* C3: every step that ends a /update-single with a successful update
\* answers 200 with the requested id and the trimmed completion content, and
\* leaves that value in the row.
C3_SingleReturnsTrimmed == [][C3_Step]_vars

C3_Witness ==
  \E p \in Procs :
    /\ Single(req[p]) /\ Done(req[p]) /\ req[p].resp.status = 200
    /\ req[p].log[2].content # req[p].resp.body.competitor_positioning[1]
    /\ req[p].resp.body.competitor_positioning[1] # <<>>

\* C4: a POST /update-all whose select returned N >= 1 rows ends with a 200,
\* status "success", whichever rows failed: every row was tried,
\* total_processed is the number of rows whose update returned a row, and
\* updated_competitors holds exactly those rows, in the order of the select,
\* each with the value its update wrote.
C4_BatchIsolatesFailures ==
  \A p \in Procs :
    LET r == req[p]
        ok == SelectSeq(IdsOf(r.data), LAMBDA x : x \in Updated(r))
    IN
    (All(r) /\ Done(r) /\ ~SelectRaised(r) /\ ~Selected(r, 0)) =>
      /\ r.resp.status = 200
      /\ r.resp.body.status = "success"
      /\ IdsOf(CallsOf(r, "completion")) = IdsOf(r.data)
      /\ r.resp.body.total_processed = Len(ok)
      /\ IdsOf(r.resp.body.updated_competitors) = ok
      /\ \A k \in DOMAIN r.resp.body.updated_competitors :
           LET u == r.resp.body.updated_competitors[k] IN
           \E x \in DOMAIN r.log :
             /\ r.log[x].call = "update" /\ r.log[x].id = u.id
             /\ r.log[x].value = u.competitor_positioning
             /\ u.competitor_name = NameOf(u.id)

C4_Witness ==
  \E p \in Procs :
    /\ All(req[p]) /\ Done(req[p])
    /\ Len(req[p].data) = 2
    /\ req[p].resp.status = 200
    /\ req[p].resp.body.total_processed = 1
    /\ ~req[p].log[2].ok
    /\ req[p].resp.body.updated_competitors[1].id = req[p].data[2].id

\* C5: a POST /update-all whose select returns no row makes no completion
\* call and no update call, and answers 200 with the one field
\* status = "No competitors found needing updates".
C5_EmptyBatch ==
  \A p \in Procs :
    (All(req[p]) /\ Selected(req[p], 0)) =>
      /\ Done(req[p])
      /\ Len(req[p].log) = 1
      /\ req[p].resp =
           [status |-> 200,
            body |-> [status |-> "No competitors found needing updates"]]

C5_Witness ==
  \E p \in Procs :
    /\ All(req[p]) /\ Selected(req[p], 0) /\ Done(req[p])
    /\ DOMAIN store # {}

\* C6: on POST /update-single a select that raises, a completion that
\* raises, an update that raises and an update that returns no row each end
\* the request with a 500 whose detail is the message of that exception; on
\* POST /update-all a select that raises ends it with a 500 carrying the
\* message, and once the select has returned the answer is a 200 whatever
\* happens to the rows.
C6_Faults500 ==
  \A p \in Procs :
    LET r == req[p]
        last == r.log[Len(r.log)]
    IN
    /\ (Single(r) /\ Len(r.log) >= 1 /\ ~last.ok) =>
         /\ Done(r) /\ r.resp.status = 500
         /\ r.resp.detail = (CASE last.call = "select" -> "select failed"
                               [] last.call = "completion" -> "completion failed"
                               [] last.call = "update" -> "update failed")
    /\ (Single(r) /\ Len(r.log) >= 1 /\ last.call = "update" /\ last.ok /\ last.rows = 0) =>
         /\ Done(r) /\ r.resp.status = 500
         /\ r.resp.detail = "list index out of range"
    /\ (All(r) /\ SelectRaised(r)) =>
         /\ Done(r) /\ Len(r.log) = 1
         /\ r.resp = [status |-> 500, detail |-> "select failed"]
    /\ (All(r) /\ Done(r) /\ ~SelectRaised(r)) => r.resp.status = 200

C6_Witness ==
  \E p \in Procs :
    /\ Single(req[p]) /\ Done(req[p]) /\ Len(req[p].log) = 3
    /\ req[p].log[3].ok /\ req[p].log[3].rows = 0
    /\ req[p].competitor_id \in deleted
    /\ \E q \in Procs : All(req[q]) /\ Done(req[q]) /\ Updated(req[q]) # {}

\* C7: in every reachable state the table holds the rows it started with
\* minus those deleted by others, each under its id and with its name, and
\* the competitor_positioning of a row is the one it started with or the
\* trimmed content of a completion that was asked about that row's name; a
\* GET / makes no remote call.
C7_StoreIntegrity ==
  /\ DOMAIN store = DOMAIN store0 \ deleted
  /\ \A id \in DOMAIN store :
       /\ store[id].id = id
       /\ store[id].competitor_name = store0[id].competitor_name
       /\ \/ store[id].competitor_positioning = store0[id].competitor_positioning
          \/ \E p \in Procs : \E k \in DOMAIN req[p].log :
               LET en == req[p].log[k] IN
               /\ en.call = "completion" /\ en.ok
               /\ en.competitor_name = store[id].competitor_name
               /\ store[id].competitor_positioning # NULL
               /\ IsTrimOf(store[id].competitor_positioning[1], en.content)
  /\ \A p \in Procs : req[p].kind = "root" => req[p].log = <<>>

C7_Witness ==
  /\ \A p \in Procs : Done(req[p]) /\ req[p].kind \in {"single", "all"}
  /\ \E a, b \in DOMAIN store :
       /\ a # b
       /\ store[a].competitor_positioning # store0[a].competitor_positioning
       /\ store[b].competitor_positioning # store0[b].competitor_positioning
       /\ store[a].competitor_positioning # store[b].competitor_positioning

\* C8: in every request an update call comes right after a completion call
\* that returned, for the same id, and sends that completion's trimmed
\* content; after a completion call that raised, the request makes no update
\* call for that id (update-single ends with a 500, update-all leaves the
\* row out of its result), and the step of the failed completion leaves the
\* table as it was.
C8_Order ==
  \A p \in Procs :
    LET r == req[p] IN
    \A k \in DOMAIN r.log :
      /\ r.log[k].call = "update" =>
           /\ k > 1
           /\ r.log[k - 1].call = "completion" /\ r.log[k - 1].ok
           /\ r.log[k - 1].id = r.log[k].id
           /\ r.log[k].value # NULL
           /\ IsTrimOf(r.log[k].value[1], r.log[k - 1].content)
      /\ (r.log[k].call = "completion" /\ ~r.log[k].ok) =>
           /\ \A x \in DOMAIN r.log :
                (x > k /\ r.log[x].call = "update") => r.log[x].id # r.log[k].id
           /\ Single(r) => Done(r) /\ r.resp.status = 500
           /\ All(r) =>
                \A x \in DOMAIN r.updated_competitors :
                  r.updated_competitors[x].id # r.log[k].id

C8_Step ==
  \A p \in Procs :
    (Len(req'[p].log) = Len(req[p].log) + 1
       /\ req'[p].log[Len(req'[p].log)].call = "completion"
       /\ ~req'[p].log[Len(req'[p].log)].ok) =>
      store' = store

\* C8: in every state each update call follows a returned completion call
\* for the same id and no update follows a failed one, and every step of a
\* failed completion leaves the table unchanged.
C8_CompletionBeforeUpdate == []C8_Order /\ [][C8_Step]_vars

C8_Witness ==
  \E p \in Procs :
    /\ All(req[p]) /\ Done(req[p]) /\ Len(req[p].data) = 2
    /\ Len(req[p].log) = 4
    /\ ~req[p].log[2].ok
    /\ req[p].log[4].call = "update" /\ req[p].log[4].rows = 1

\* C9: nothing is retried.  A POST /update-all makes its completion calls
\* for the rows of its select in the order of the select, one per row, and
\* at most one update call per row, each right after that row's completion;
\* it has answered once the last row is done.  A POST /update-single makes
\* at most one completion call and at most one update call.
C9_NoRetry ==
  \A p \in Procs :
    LET r == req[p]
        cs == IdsOf(CallsOf(r, "completion"))
        us == IdsOf(CallsOf(r, "update"))
    IN
    /\ All(r) =>
         /\ Len(cs) <= Len(r.data)
         /\ cs = SubSeq(IdsOf(r.data), 1, Len(cs))
         /\ \A a, b \in DOMAIN us : a # b => us[a] # us[b]
         /\ \A a \in DOMAIN us : \E b \in DOMAIN cs : cs[b] = us[a]
         /\ Len(r.log) <= 1 + 2 * Len(r.data)
         /\ Done(r) /\ ~SelectRaised(r) => cs = IdsOf(r.data)
         /\ (~Done(r)) => r.i \in 1..Len(r.data) /\ r.i = Len(cs) + (IF r.pc = "completion" THEN 1 ELSE 0)
         /\ (Len(cs) = Len(r.data) /\ Len(cs) > 0
               /\ (r.log[Len(r.log)].call = "update" \/ ~r.log[Len(r.log)].ok)) => Done(r)
    /\ Single(r) =>
         /\ Len(cs) <= 1 /\ Len(us) <= 1
         /\ Len(r.log) <= 3
         /\ (Len(r.log) = 3 \/ (Len(r.log) >= 1 /\ ~r.log[Len(r.log)].ok)) => Done(r)

C9_Witness ==
  \E p \in Procs :
    /\ All(req[p]) /\ Done(req[p]) /\ Len(req[p].data) = 2
    /\ Len(req[p].log) = 5
    /\ req[p].log[3].call = "update" /\ ~req[p].log[3].ok
    /\ req[p].log[5].call = "update" /\ req[p].log[5].rows = 1

\* C10: every update call of a POST /update-all is for an id its own select
\* returned; and when no other request was in flight while it ran, every row
\* it wrote held a null competitor_positioning just before the write.
C10_BatchWritesNullRows ==
  \A p \in Procs :
    LET r == req[p] IN
    All(r) =>
      \A k \in DOMAIN r.log :
        r.log[k].call = "update" =>
          /\ \E x \in DOMAIN r.data : r.data[x].id = r.log[k].id
          /\ (~r.concurrent /\ r.log[k].ok /\ r.log[k].rows = 1) => r.log[k].prev = NULL

C10_Witness ==
  \E p \in Procs :
    /\ All(req[p]) /\ Done(req[p]) /\ ~req[p].concurrent
    /\ Updated(req[p]) # {}
    /\ \E id \in DOMAIN store \ Updated(req[p]) :
         /\ id \notin {req[p].data[x].id : x \in DOMAIN req[p].data}
         /\ store[id].competitor_positioning # NULL
         /\ store[id].competitor_positioning # store0[id].competitor_positioning

\* The other half of C10: with another request in flight, a batch can
\* overwrite a value written after its select.  This state is reachable.
C10_ConcurrentOverwrite ==
  \E p \in Procs :
    /\ All(req[p]) /\ req[p].concurrent
    /\ \E k \in DOMAIN req[p].log :
         /\ req[p].log[k].call = "update" /\ req[p].log[k].rows = 1
         /\ req[p].log[k].prev # NULL
====
